---- MODULE Spec2Model ----
(***************************************************************************)
(* A model of BobaBotAgent (src/agent.py): the Tool Bridge                 *)
(* (_call_mcp_tool), customer capture and purchase tracking, the three     *)
(* marketing campaigns, the sales report and the sentiment responder.      *)
(*                                                                         *)
(* Conventions.  Text is a sequence of characters.  Money is an integer    *)
(* number of 1/AmountScale currency units, sentiment scores an integer     *)
(* number of 1/ScoreScale.  A Python dict whose keys may be missing is a   *)
(* record with a `keys` set next to the fields; a call's outcome is a      *)
(* record [exc, value] where exc = NoExc means the call returned.          *)
(***************************************************************************)
EXTENDS Integers, Sequences, FiniteSets, TLC

VARIABLES
    pc,        \* position of the driver: idle, inside a campaign loop, returned, raised
    op,        \* the operation last invoked
    arg,       \* its input (the external inputs it consumed)
    ret,       \* its outcome [exc, value]
    events,    \* the effects of the last handler step: bridge calls, sends, alerts, log lines
    profiles,  \* the customer profile dicts handed out by capture_customer, by id
    caller,    \* who invoked the running campaign: the driver or run_marketing_campaigns
    audience,  \* the running campaign's targeted customers
    i,         \* index of the next customer of the running campaign's loop
    cur,       \* the running campaign's result dict
    results,   \* run_marketing_campaigns' results list
    sent,      \* ids _send_message dispatched to in the running campaign, in order
    earlier    \* ids messaged by the earlier campaigns of the running run

vars == <<pc, op, arg, ret, events, profiles, caller, audience, i, cur, results, sent, earlier>>

---------------------------------------------------------------------------
(* Bounds of the model *)

MaxTextLen == 3
MaxAudience == 2
MaxRunAudience == 1
MaxRunTextLen == 1
MaxSales == 3
MaxVisits == 2

(* Scales of the fixed-point numbers *)
AmountScale == 4
ScoreScale == 10

---------------------------------------------------------------------------
(* Values *)

NoExc == "none"
None == "None"

Chars == {"T", " ", "\n"}
Whitespace == {" ", "\n"}

RECURSIVE SeqsUpTo(_, _)
SeqsUpTo(S, n) ==
    IF n = 0 THEN {<<>>}
    ELSE LET shorter == SeqsUpTo(S, n - 1)
         IN  shorter \cup {Append(s, x) : s \in {t \in shorter : Len(t) = n - 1}, x \in S}

Texts == SeqsUpTo(Chars, MaxTextLen)

(* A JSON value, as json.loads returns it.  Only an object has keys; a key
   that is absent leaves its field at the type's default. *)
JsonObject(keys, text, score, error) ==
    [type |-> "object", keys |-> keys, text |-> text, score |-> score, error |-> error]

NonObject(t) ==
    [type |-> t, keys |-> {}, text |-> <<>>, score |-> 0, error |-> ""]

NonObjects == {NonObject(t) : t \in {"array", "string", "null"}}

ErrorMessages == {"", "quota exceeded"}

Scores == {-10, -6, -5, -4, -1, 0, 1, 3, 5, 10}

(* What the text-generation tool can print: objects with any of text, error *)
TextObjects ==
    {JsonObject({"text"}, t, 0, "") : t \in Texts}
    \cup {JsonObject({"text", "error"}, t, 0, e) : t \in {<<>>, <<"T">>}, e \in ErrorMessages}
    \cup {JsonObject({"error"}, <<>>, 0, e) : e \in ErrorMessages}
    \cup {JsonObject({}, <<>>, 0, "")}

(* The same, with the shorter texts of a whole run *)
RunTextObjects == {v \in TextObjects : Len(v.text) <= MaxRunTextLen}

(* What the sentiment tool can print: objects with any of score, error *)
ScoreObjects ==
    {JsonObject({"score"}, <<>>, s, "") : s \in Scores}
    \cup {JsonObject({"score", "error"}, <<>>, s, e) : s \in {-10, 3}, e \in ErrorMessages}
    \cup {JsonObject({"error"}, <<>>, 0, e) : e \in ErrorMessages}
    \cup {JsonObject({}, <<>>, 0, "")}

(* What a sheet tool can print *)
SheetObjects ==
    {JsonObject({}, <<>>, 0, ""), JsonObject({"error"}, <<>>, 0, "quota exceeded")}

(* The outcomes of the external process subprocess.run starts *)
Exit0(v) == [kind |-> "exit0", parseable |-> TRUE, value |-> v, stderr |-> ""]
Exit0Garbage == [kind |-> "exit0", parseable |-> FALSE, value |-> NonObject("null"), stderr |-> ""]
NonZero(e) == [kind |-> "nonzero", parseable |-> FALSE, value |-> NonObject("null"), stderr |-> e]
TimedOut == [kind |-> "timeout", parseable |-> FALSE, value |-> NonObject("null"), stderr |-> ""]
LaunchFailed == [kind |-> "launch_failed", parseable |-> FALSE, value |-> NonObject("null"), stderr |-> ""]

Stderrs == {"", "tool failed", "unauthorized"}

ProcOutcomes(values) ==
    {Exit0(v) : v \in values \cup NonObjects}
    \cup {Exit0Garbage, TimedOut, LaunchFailed}
    \cup {NonZero(e) : e \in Stderrs}

(* The outcomes of a sheet tool's process *)
SheetOutcomes ==
    {Exit0(v) : v \in SheetObjects}
    \cup {Exit0Garbage, TimedOut, LaunchFailed, NonZero("tool failed")}

---------------------------------------------------------------------------
(* Tool Bridge *)

Returned(v) == [exc |-> NoExc, value |-> v]
Raised(e) == [exc |-> e, value |-> NonObject("null")]

ErrorResult(msg) == JsonObject({"error"}, <<>>, 0, msg)

(* str(e) of the exceptions the try block can raise *)
ExcMessage(e) ==
    CASE e = "TimeoutExpired" -> "Command timed out after 30 seconds"
      [] e = "FileNotFoundError" -> "No such file or directory: manus-mcp-cli"
      [] e = "JSONDecodeError" -> "Expecting value: line 1 column 1 (char 0)"
      [] OTHER -> e

(* The try block of _call_mcp_tool: subprocess.run, then json.loads of the
   output of a process that exited 0, then the error dict of one that did not *)
call_mcp_tool_try(o) ==
    CASE o.kind = "timeout" -> Raised("TimeoutExpired")
      [] o.kind = "launch_failed" -> Raised("FileNotFoundError")
      [] o.kind = "exit0" -> IF o.parseable THEN Returned(o.value) ELSE Raised("JSONDecodeError")
      [] OTHER -> Returned(ErrorResult(o.stderr))

(* A handler that lets the parse failure through *)
call_mcp_tool_narrow(o) ==
    LET r == call_mcp_tool_try(o)
    IN  IF r.exc \in {"TimeoutExpired", "FileNotFoundError"}
        THEN Returned(ErrorResult(ExcMessage(r.exc)))
        ELSE r

(* _call_mcp_tool: `except Exception` turns every exception of the try block
   into an error dict *)
call_mcp_tool(o) ==
    LET r == call_mcp_tool_try(o)
    IN  IF r.exc # NoExc THEN Returned(ErrorResult(ExcMessage(r.exc))) ELSE r

(* dict.get *)
HasKey(v, k) == k \in v.keys
ErrorTagged(v) == v.type = "object" /\ HasKey(v, "error")

McpEvent(tool, r) ==
    [kind |-> "mcp", tool |-> tool, result |-> r, to |-> "-", body |-> <<>>]
SendEvent(id, what, body) ==
    [kind |-> "send", tool |-> what, result |-> Returned(NonObject("null")), to |-> id, body |-> body]
AlertEvent ==
    [kind |-> "alert", tool |-> "manager", result |-> Returned(NonObject("null")), to |-> "-", body |-> <<>>]
LogEvent(what, id) ==
    [kind |-> "log", tool |-> what, result |-> Returned(NonObject("null")), to |-> id, body |-> <<>>]

Tools ==
    {"google_vertex_ai_send_prompt", "google_vertex_ai_analyze_text_sentiment",
     "google_sheets_create_spreadsheet_row", "google_sheets_update_spreadsheet_row"}

ToolValues(tool) ==
    CASE tool = "google_vertex_ai_send_prompt" -> TextObjects
      [] tool = "google_vertex_ai_analyze_text_sentiment" -> ScoreObjects
      [] OTHER -> SheetObjects

Idle == pc = "idle"

NoCampaign ==
    [campaign |-> "none", target_count |-> 0, sent |-> 0, errors |-> 0]

Finish(r) == IF r.exc = NoExc THEN "returned" ELSE "raised"

(* A direct call of the bridge *)
CallMcpTool ==
    /\ Idle
    /\ \E tool \in Tools : \E o \in ProcOutcomes(ToolValues(tool)) :
         LET r == call_mcp_tool(o)
         IN  /\ op' = "_call_mcp_tool"
             /\ arg' = [tool |-> tool, outcome |-> o]
             /\ ret' = r
             /\ pc' = Finish(r)
             /\ events' = <<McpEvent(tool, r)>>
    /\ UNCHANGED <<profiles, caller, audience, i, cur, results, sent, earlier>>

---------------------------------------------------------------------------
(* Customer capture and purchase tracking *)

CustIds == {"CUST-0000000A", "CUST-0000000B"}

InputFields == {"name", "phone", "email", "favorite_drink"}

ProfileKeys ==
    {"id", "name", "phone", "email", "favorite_drink", "signup_date",
     "total_visits", "total_spent", "loyalty_points", "last_visit", "status"}

(* capture_customer's argument: a dict holding any of the four fields *)
SampleData ==
    [name |-> "Nguyen Van A", phone |-> "+84901234567",
     email |-> "nguyen@example.com", favorite_drink |-> "Taro Milk Tea"]

CustomerData == {[keys |-> k, fields |-> SampleData] : k \in SUBSET InputFields}

(* dict.get(key): the value, or None *)
DataGet(data, k) == IF k \in data.keys THEN data.fields[k] ELSE None

(* No dict: the id has not been captured *)
NoProfile ==
    [keys |-> {}, id |-> None, name |-> None, phone |-> None, email |-> None,
     favorite_drink |-> None, signup_date |-> None, total_visits |-> 0,
     total_spent |-> 0, loyalty_points |-> 0, last_visit |-> None, status |-> None]

WelcomeBonus == 100

(* The customer dict capture_customer builds *)
NewCustomer(data, id) ==
    [keys |-> ProfileKeys, id |-> id,
     name |-> DataGet(data, "name"), phone |-> DataGet(data, "phone"),
     email |-> DataGet(data, "email"), favorite_drink |-> DataGet(data, "favorite_drink"),
     signup_date |-> "now", total_visits |-> 0, total_spent |-> 0,
     loyalty_points |-> WelcomeBonus, last_visit |-> None, status |-> "active"]

(* The outcome of a helper: the exception it raised, if any, and its effects *)
Effect(exc, evs) == [exc |-> exc, events |-> evs]

(* _store_customer_in_sheets: reads customer['name'], calls the bridge and
   drops its result *)
store_customer_in_sheets(customer, o) ==
    IF ~HasKey(customer, "name") THEN Effect("KeyError", <<>>)
    ELSE LET r == call_mcp_tool(o)
         IN  Effect(r.exc, <<McpEvent("google_sheets_create_spreadsheet_row", r)>>)

(* _update_customer_in_sheets: reads customer['id'], calls the bridge and
   drops its result *)
update_customer_in_sheets(customer, o) ==
    IF ~HasKey(customer, "id") THEN Effect("KeyError", <<>>)
    ELSE LET r == call_mcp_tool(o)
         IN  Effect(r.exc, <<McpEvent("google_sheets_update_spreadsheet_row", r)>>)

(* _send_message prints customer['name'] *)
send_message(customer, what, body) ==
    IF ~HasKey(customer, "name") THEN Effect("KeyError", <<>>)
    ELSE Effect(NoExc, <<SendEvent(customer.id, what, body)>>)

(* _send_welcome_message *)
send_welcome_message(customer) ==
    IF ~HasKey(customer, "name") THEN Effect("KeyError", <<>>)
    ELSE send_message(customer, "welcome", <<>>)

Outcome(exc, value, evs) == [exc |-> exc, value |-> value, events |-> evs]

(* A capture that welcomes the customer only once the row is stored *)
capture_customer_checked(data, id, o) ==
    LET customer == NewCustomer(data, id)
        st == store_customer_in_sheets(customer, o)
    IN  IF st.exc # NoExc THEN Outcome(st.exc, NoProfile, st.events)
        ELSE IF ErrorTagged(st.events[1].result.value)
        THEN Outcome(NoExc, customer, st.events)
        ELSE LET w == send_welcome_message(customer)
             IN  IF w.exc # NoExc THEN Outcome(w.exc, NoProfile, st.events \o w.events)
                 ELSE Outcome(NoExc, customer, st.events \o w.events)

(* capture_customer: build the dict, store it, welcome, return it *)
capture_customer(data, id, o) ==
    LET customer == NewCustomer(data, id)
        st == store_customer_in_sheets(customer, o)
    IN  IF st.exc # NoExc THEN Outcome(st.exc, NoProfile, st.events)
        ELSE LET w == send_welcome_message(customer)
             IN  IF w.exc # NoExc THEN Outcome(w.exc, NoProfile, st.events \o w.events)
                 ELSE Outcome(NoExc, customer, st.events \o w.events)

Known == {id \in CustIds : profiles[id] # NoProfile}

(* _generate_customer_id draws a fresh uuid; the model has it among the ids
   not handed out yet *)
Capture(inputs) ==
    /\ Idle
    /\ \E data \in inputs : \E id \in CustIds \ Known :
       \E o \in SheetOutcomes :
         LET r == capture_customer(data, id, o)
         IN  /\ op' = "capture_customer"
             /\ arg' = [data |-> data, known |-> Known, outcome |-> o]
             /\ ret' = [exc |-> r.exc, value |-> r.value]
             /\ pc' = Finish(r)
             /\ events' = r.events
             /\ profiles' = IF r.exc = NoExc THEN [profiles EXCEPT ![id] = r.value]
                            ELSE profiles
    /\ UNCHANGED <<caller, audience, i, cur, results, sent, earlier>>

(* capture_customer on every input mapping *)
CaptureCustomer == Capture(CustomerData)

(* capture_customer on the sign-up form filled in, before purchases *)
CaptureSignup == Capture({[keys |-> InputFields, fields |-> SampleData]})

(* Purchase amounts, in 1/AmountScale units: 0, 0.75 and 2.5 *)
Amounts == {0, 3, 10}

(* int(x): truncation toward zero *)
PyInt(x) == IF x >= 0 THEN x \div AmountScale ELSE -((-x) \div AmountScale)

Milestones == {5, 10, 25, 50, 100}

(* _get_customer as shipped: a dict of id and name, whatever the id *)
StubCustomer(id) ==
    [NoProfile EXCEPT !.keys = {"id", "name"}, !.id = id, !.name = "Sample Customer"]

(* What _get_customer can load: the shipped stub's dict, or, once the
   lookup is backed by the ledger, the dict of a captured customer *)
get_customer(id) ==
    {StubCustomer(id)} \cup (IF id \in Known THEN {profiles[id]} ELSE {})

(* _check_milestone_rewards *)
check_milestone_rewards(customer) ==
    IF customer.total_visits \in Milestones
    THEN IF ~HasKey(customer, "name") THEN Effect("KeyError", <<>>)
         ELSE Effect(NoExc, <<LogEvent("milestone", customer.id)>>)
    ELSE Effect(NoExc, <<>>)

(* An update that redeems the points instead of awarding them *)
track_purchase_update_redeem(customer, amount) ==
    [customer EXCEPT !.total_visits = @ + 1,
                     !.total_spent = @ + amount,
                     !.last_visit = "now",
                     !.keys = @ \cup {"last_visit"},
                     !.loyalty_points = @ - PyInt(amount)]

(* Lines 77-83 of track_purchase on a dict that has the three counters *)
track_purchase_update(customer, amount) ==
    [customer EXCEPT !.total_visits = @ + 1,
                     !.total_spent = @ + amount,
                     !.last_visit = "now",
                     !.keys = @ \cup {"last_visit"},
                     !.loyalty_points = @ + PyInt(amount)]

(* track_purchase on the dict _get_customer loaded.  `customer[k] += x`
   reads customer[k] first: a missing counter raises KeyError, with what
   was updated before it kept in the dict. *)
track_purchase(customer, amount, o) ==
    IF ~HasKey(customer, "total_visits") THEN Outcome("KeyError", customer, <<>>)
    ELSE IF ~HasKey(customer, "total_spent")
    THEN Outcome("KeyError", [customer EXCEPT !.total_visits = @ + 1], <<>>)
    ELSE IF ~HasKey(customer, "loyalty_points")
    THEN Outcome("KeyError",
                 [customer EXCEPT !.total_visits = @ + 1, !.total_spent = @ + amount,
                                  !.last_visit = "now", !.keys = @ \cup {"last_visit"}],
                 <<>>)
    ELSE LET updated == track_purchase_update(customer, amount)
             up == update_customer_in_sheets(updated, o)
         IN  IF up.exc # NoExc THEN Outcome(up.exc, updated, up.events)
             ELSE LET m == check_milestone_rewards(updated)
                  IN  Outcome(m.exc, updated, up.events \o m.events)

(* The dict _get_customer returns is mutated in place: the dict of a
   captured customer keeps the update, the stub's fresh dict is dropped *)
TrackPurchase ==
    /\ Idle
    /\ \E id \in CustIds : \E amount \in Amounts : \E customer \in get_customer(id) :
       \E o \in SheetOutcomes :
         LET r == track_purchase(customer, amount, o)
         IN  /\ customer.total_visits < MaxVisits
             /\ op' = "track_purchase"
             /\ arg' = [customer_id |-> id, total_amount |-> amount,
                        loaded |-> customer, outcome |-> o]
             /\ ret' = [exc |-> r.exc, value |-> r.value]
             /\ pc' = Finish(r)
             /\ events' = r.events
             /\ profiles' = IF customer = StubCustomer(id) THEN profiles
                            ELSE [profiles EXCEPT ![id] = r.value]
    /\ UNCHANGED <<caller, audience, i, cur, results, sent, earlier>>

---------------------------------------------------------------------------
(* Campaign Runner *)

(* A targeted customer, as a ledger query returns it: a dict that has its
   id and may lack its name.  The other fields are read with dict.get and
   only fill the prompts. *)
Customer(id, named) ==
    [id |-> id, keys |-> IF named THEN {"id", "name"} ELSE {"id"}]

Customers == {Customer(id, named) : id \in CustIds, named \in BOOLEAN}

Audiences == SeqsUpTo(Customers, MaxAudience)

(* The audiences of the queries of one whole run *)
RunAudiences == SeqsUpTo(Customers, MaxRunAudience)

(* The outcomes of the text-generation process in a campaign loop *)
PromptOutcomes ==
    ProcOutcomes(IF caller = "driver" THEN TextObjects ELSE RunTextObjects)

FallbackMessage == <<"We miss you! Come back for 15% off!">>

(* _generate_personalized_message: the prompt reads customer['name'], the
   bridge is called, and the message is result.get("text", fallback) *)
generate_personalized_message(customer, o) ==
    IF ~HasKey(customer, "name") THEN Outcome("KeyError", <<>>, <<>>)
    ELSE LET r == call_mcp_tool(o)
             ev == <<McpEvent("google_vertex_ai_send_prompt", r)>>
         IN  IF r.exc # NoExc THEN Outcome(r.exc, <<>>, ev)
             ELSE IF r.value.type # "object" THEN Outcome("AttributeError", <<>>, ev)
             ELSE IF HasKey(r.value, "text") THEN Outcome(NoExc, r.value.text, ev)
             ELSE Outcome(NoExc, FallbackMessage, ev)

(* One pass of a campaign loop: the exception that left the loop, if any,
   what it adds to the counters, and its effects *)
Pass(exc, nsent, nerrors, evs) ==
    [exc |-> exc, sent |-> nsent, errors |-> nerrors, events |-> evs]

(* The except clause of _run_we_miss_you_campaign: the log line reads
   customer['name'] before the error is counted *)
we_miss_you_except(customer, evs) ==
    IF ~HasKey(customer, "name") THEN Pass("KeyError", 0, 0, evs)
    ELSE Pass(NoExc, 0, 1, evs \o <<LogEvent("error", customer.id)>>)

(* The body of _run_we_miss_you_campaign's loop *)
we_miss_you_pass(customer, o) ==
    LET g == generate_personalized_message(customer, o)
    IN  IF g.exc # NoExc THEN we_miss_you_except(customer, g.events)
        ELSE LET m == send_message(customer, "we_miss_you", g.value)
             IN  IF m.exc # NoExc THEN we_miss_you_except(customer, g.events)
                 ELSE Pass(NoExc, 1, 0, g.events \o m.events)

(* The body of _run_birthday_campaign's loop: the offer, then
   _generate_birthday_message, which reads customer['name'], then the send *)
birthday_pass(customer) ==
    IF ~HasKey(customer, "name") THEN Pass("KeyError", 0, 0, <<>>)
    ELSE LET m == send_message(customer, "birthday", <<>>)
         IN  IF m.exc # NoExc THEN Pass(m.exc, 0, 0, <<>>)
             ELSE Pass(NoExc, 1, 0, m.events)

(* str.strip() *)
RECURSIVE LStrip(_)
LStrip(s) ==
    IF s = <<>> THEN s
    ELSE IF Head(s) \in Whitespace THEN LStrip(Tail(s)) ELSE s

RECURSIVE RStrip(_)
RStrip(s) ==
    IF s = <<>> THEN s
    ELSE IF s[Len(s)] \in Whitespace THEN RStrip(SubSeq(s, 1, Len(s) - 1)) ELSE s

Strip(s) == RStrip(LStrip(s))

(* str.split("\n"): the pieces between the line breaks, at least one *)
RECURSIVE SplitLines(_)
SplitLines(s) ==
    LET breaks == {k \in 1..Len(s) : s[k] = "\n"}
    IN  IF breaks = {} THEN <<s>>
        ELSE LET k == CHOOSE b \in breaks : \A c \in breaks : b <= c
             IN  <<SubSeq(s, 1, k - 1)>> \o SplitLines(SubSeq(s, k + 1, Len(s)))

NonEmpty(s) == s # <<>>

StripAll(lines) == [k \in 1..Len(lines) |-> Strip(lines[k])]

(* A parse that keeps the blank lines *)
parse_recommendations_keep_blank(text) ==
    StripAll(SplitLines(Strip(text)))

(* [r.strip() for r in text.strip().split("\n") if r.strip()] *)
parse_recommendations(text) ==
    SelectSeq(StripAll(SplitLines(Strip(text))), NonEmpty)

(* _get_ai_recommendations: the bridge call, result.get("text", ""), the parse *)
get_ai_recommendations(customer, o) ==
    LET r == call_mcp_tool(o)
        ev == <<McpEvent("google_vertex_ai_send_prompt", r)>>
    IN  IF r.exc # NoExc THEN Outcome(r.exc, <<>>, ev)
        ELSE IF r.value.type # "object" THEN Outcome("AttributeError", <<>>, ev)
        ELSE IF HasKey(r.value, "text")
        THEN Outcome(NoExc, parse_recommendations(r.value.text), ev)
        ELSE Outcome(NoExc, parse_recommendations(<<>>), ev)

(* ", ".join(recommendations) *)
RECURSIVE JoinItems(_)
JoinItems(items) ==
    IF items = <<>> THEN <<>>
    ELSE IF Len(items) = 1 THEN items[1]
    ELSE items[1] \o <<",", " ">> \o JoinItems(Tail(items))

(* A loop body that counts a customer whether or not there was anything to
   recommend *)
recommendation_pass_counts_skipped(customer, o) ==
    LET g == get_ai_recommendations(customer, o)
    IN  IF g.exc # NoExc THEN Pass(g.exc, 0, 0, g.events)
        ELSE IF g.value = <<>> THEN Pass(NoExc, 1, 0, g.events)
        ELSE IF ~HasKey(customer, "name") THEN Pass("KeyError", 0, 0, g.events)
        ELSE LET m == send_message(customer, "recommendation", JoinItems(g.value))
             IN  IF m.exc # NoExc THEN Pass(m.exc, 0, 0, g.events)
                 ELSE Pass(NoExc, 1, 0, g.events \o m.events)

(* The body of _run_recommendation_campaign's loop *)
recommendation_pass(customer, o) ==
    LET g == get_ai_recommendations(customer, o)
    IN  IF g.exc # NoExc THEN Pass(g.exc, 0, 0, g.events)
        ELSE IF g.value = <<>> THEN Pass(NoExc, 0, 0, g.events)
        ELSE IF ~HasKey(customer, "name") THEN Pass("KeyError", 0, 0, g.events)
        ELSE LET m == send_message(customer, "recommendation", JoinItems(g.value))
             IN  IF m.exc # NoExc THEN Pass(m.exc, 0, 0, g.events)
                 ELSE Pass(NoExc, 1, 0, g.events \o m.events)

NoArg == [tool |-> "none", outcome |-> TimedOut]
NoValue == NonObject("null")

(* The head of a campaign: the query's audience and the result dict *)
Enter(name, aud) ==
    /\ pc' = name
    /\ audience' = aud
    /\ i' = 1
    /\ cur' = [campaign |-> name, target_count |-> Len(aud), sent |-> 0, errors |-> 0]
    /\ sent' = <<>>
    /\ events' = <<>>

(* The ids _send_message was called for, and got through, among the effects
   of a pass, in order *)
Dispatched(evs) ==
    LET sends == SelectSeq(evs, LAMBDA e : e.kind = "send")
    IN  [k \in 1..Len(sends) |-> sends[k].to]

(* One pass of the running campaign's loop over audience[i] *)
Step(pass) ==
    IF pass.exc # NoExc
    THEN /\ pc' = "raised"
         /\ ret' = [exc |-> pass.exc, value |-> NoValue]
         /\ events' = pass.events
         /\ sent' = sent \o Dispatched(pass.events)
         /\ UNCHANGED <<op, arg, profiles, caller, audience, i, cur, results, earlier>>
    ELSE /\ cur' = [cur EXCEPT !.sent = @ + pass.sent, !.errors = @ + pass.errors]
         /\ i' = i + 1
         /\ sent' = sent \o Dispatched(pass.events)
         /\ events' = pass.events
         /\ UNCHANGED <<pc, op, arg, ret, profiles, caller, audience, results, earlier>>

SentIds == {sent[k] : k \in 1..Len(sent)}

(* A campaign called on its own returns its result dict *)
ReturnToDriver ==
    /\ pc' = "returned"
    /\ ret' = Returned(cur)
    /\ events' = <<>>
    /\ UNCHANGED <<op, arg, profiles, caller, audience, i, cur, results, sent, earlier>>

(* run_marketing_campaigns appends the result and calls the next campaign *)
ReturnToRun(next) ==
    /\ results' = Append(results, cur)
    /\ earlier' = earlier \cup SentIds
    /\ \E aud \in RunAudiences : Enter(next, aud)
    /\ UNCHANGED <<op, arg, ret, profiles, caller>>

(* A campaign called by the driver *)
Call(name) ==
    /\ Idle
    /\ op' = name
    /\ arg' = NoArg
    /\ ret' = Returned(NoValue)
    /\ caller' = "driver"
    /\ results' = <<>>
    /\ earlier' = {}
    /\ \E aud \in Audiences : Enter(name, aud)
    /\ UNCHANGED profiles

CallWeMissYou == Call("_run_we_miss_you_campaign")
CallBirthday == Call("_run_birthday_campaign")
CallRecommendation == Call("_run_recommendation_campaign")

(* run_marketing_campaigns, up to the head of its first campaign *)
RunMarketingCampaigns ==
    /\ Idle
    /\ op' = "run_marketing_campaigns"
    /\ arg' = NoArg
    /\ ret' = Returned(NoValue)
    /\ caller' = "run_marketing_campaigns"
    /\ results' = <<>>
    /\ earlier' = {}
    /\ \E aud \in RunAudiences : Enter("_run_we_miss_you_campaign", aud)
    /\ UNCHANGED profiles

WeMissYouStep ==
    /\ pc = "_run_we_miss_you_campaign"
    /\ i <= Len(audience)
    /\ \E o \in PromptOutcomes : Step(we_miss_you_pass(audience[i], o))

(* A run that goes from the first campaign straight to the third *)
WeMissYouReturnSkipsBirthday ==
    /\ pc = "_run_we_miss_you_campaign"
    /\ i > Len(audience)
    /\ IF caller = "driver" THEN ReturnToDriver
       ELSE ReturnToRun("_run_recommendation_campaign")

WeMissYouReturn ==
    /\ pc = "_run_we_miss_you_campaign"
    /\ i > Len(audience)
    /\ IF caller = "driver" THEN ReturnToDriver
       ELSE ReturnToRun("_run_birthday_campaign")

BirthdayStep ==
    /\ pc = "_run_birthday_campaign"
    /\ i <= Len(audience)
    /\ Step(birthday_pass(audience[i]))

BirthdayReturn ==
    /\ pc = "_run_birthday_campaign"
    /\ i > Len(audience)
    /\ IF caller = "driver" THEN ReturnToDriver
       ELSE ReturnToRun("_run_recommendation_campaign")

RecommendationStep ==
    /\ pc = "_run_recommendation_campaign"
    /\ i <= Len(audience)
    /\ \E o \in PromptOutcomes : Step(recommendation_pass(audience[i], o))

(* The last campaign's result completes the list run_marketing_campaigns returns *)
RecommendationReturn ==
    /\ pc = "_run_recommendation_campaign"
    /\ i > Len(audience)
    /\ IF caller = "driver" THEN ReturnToDriver
       ELSE /\ pc' = "returned"
            /\ results' = Append(results, cur)
            /\ ret' = Returned(Append(results, cur))
            /\ events' = <<>>
            /\ UNCHANGED <<op, arg, profiles, caller, audience, i, cur, sent, earlier>>

---------------------------------------------------------------------------
(* Sentiment Responder *)

Feedbacks == {"The boba was amazing!", "Too sweet.", "Waited 40 minutes.", ""}

ApologyEmail == "We're sorry for your experience. Please accept this free drink coupon."

(* score < -0.5, on a score counted in 1/ScoreScale *)
BelowNegativeThreshold(score) == 2 * score < -ScoreScale

SentimentResult(label, hasScore, score, action, apology) ==
    [sentiment |-> label, has_score |-> hasScore, score |-> score,
     action_taken |-> action, apology_email |-> apology]

(* A responder that also escalates a score of exactly -0.5 *)
analyze_customer_sentiment_inclusive(feedback, o) ==
    LET r == call_mcp_tool(o)
        ev == <<McpEvent("google_vertex_ai_analyze_text_sentiment", r)>>
        v == r.value
        has == HasKey(v, "score")
        score == IF has THEN v.score ELSE 0
    IN  IF r.exc # NoExc THEN Outcome(r.exc, NoValue, ev)
        ELSE IF v.type # "object" THEN Outcome("AttributeError", NoValue, ev)
        ELSE IF 2 * score <= -ScoreScale
        THEN Outcome(NoExc,
                     SentimentResult("negative", has, score,
                                     "manager_alerted_and_apology_generated", ApologyEmail),
                     ev \o <<AlertEvent>>)
        ELSE Outcome(NoExc,
                     SentimentResult(IF score > 0 THEN "positive" ELSE "neutral",
                                     has, score, "none", None),
                     ev)

(* analyze_customer_sentiment: the bridge call, then sentiment.get("score", 0)
   against the two thresholds; the dict returned holds sentiment.get("score"),
   which is None (has_score FALSE) when the key is missing *)
analyze_customer_sentiment(feedback, o) ==
    LET r == call_mcp_tool(o)
        ev == <<McpEvent("google_vertex_ai_analyze_text_sentiment", r)>>
        v == r.value
        has == HasKey(v, "score")
        score == IF has THEN v.score ELSE 0
    IN  IF r.exc # NoExc THEN Outcome(r.exc, NoValue, ev)
        ELSE IF v.type # "object" THEN Outcome("AttributeError", NoValue, ev)
        ELSE IF BelowNegativeThreshold(score)
        THEN Outcome(NoExc,
                     SentimentResult("negative", has, score,
                                     "manager_alerted_and_apology_generated", ApologyEmail),
                     ev \o <<AlertEvent>>)
        ELSE Outcome(NoExc,
                     SentimentResult(IF score > 0 THEN "positive" ELSE "neutral",
                                     has, score, "none", None),
                     ev)

AnalyzeCustomerSentiment ==
    /\ Idle
    /\ \E feedback \in Feedbacks : \E o \in ProcOutcomes(ScoreObjects) :
         LET r == analyze_customer_sentiment(feedback, o)
         IN  /\ op' = "analyze_customer_sentiment"
             /\ arg' = [feedback_text |-> feedback, outcome |-> o]
             /\ ret' = [exc |-> r.exc, value |-> r.value]
             /\ pc' = Finish(r)
             /\ events' = r.events
    /\ UNCHANGED <<profiles, caller, audience, i, cur, results, sent, earlier>>

---------------------------------------------------------------------------
(* Reporting Engine *)

(* Sale amounts, in 1/AmountScale units: 10, 20, 30 and 0.75 *)
SaleAmounts == {10 * AmountScale, 20 * AmountScale, 30 * AmountScale, 3}

SalesData == SeqsUpTo({[amount |-> a] : a \in SaleAmounts}, MaxSales)

Periods == {"daily", "weekly"}

RECURSIVE SumAmounts(_)
SumAmounts(sales) ==
    IF sales = <<>> THEN 0 ELSE Head(sales).amount + SumAmounts(Tail(sales))

RECURSIVE Gcd(_, _)
Gcd(a, b) == IF b = 0 THEN a ELSE Gcd(b, a % b)

(* x / y of two numbers, y > 0, x >= 0: the quotient in lowest terms *)
TrueDiv(x, y) ==
    LET g == Gcd(x, y) IN [num |-> x \div g, den |-> y \div g]

Zero == [num |-> 0, den |-> 1]

Metrics(revenue, count, average) ==
    [total_revenue |-> revenue, total_transactions |-> count, average_transaction |-> average,
     top_selling_items |-> <<"Taro Milk Tea", "Brown Sugar Boba", "Mango Smoothie">>,
     peak_hours |-> <<"2pm-4pm", "7pm-9pm">>,
     loyalty_member_percentage |-> "35.5"]

(* _store_report_in_sheets: calls the bridge and drops its result *)
store_report_in_sheets(o) ==
    LET r == call_mcp_tool(o)
    IN  Effect(r.exc, <<McpEvent("google_sheets_create_spreadsheet_row", r)>>)

(* A report that divides before it looks at the count *)
generate_sales_report_unguarded(store, period, sales, o) ==
    LET revenue == SumAmounts(sales)
        count == Len(sales)
    IN  IF count = 0 THEN Outcome("ZeroDivisionError", NoValue, <<>>)
        ELSE LET report == [store_id |-> store, period |-> period,
                            metrics |-> Metrics(revenue, count, TrueDiv(revenue, count))]
                 st == store_report_in_sheets(o)
             IN  Outcome(st.exc, report, st.events)

(* generate_sales_report: the sum, the count, the average left at 0 unless
   the count is positive, the report stored and returned *)
generate_sales_report(store, period, sales, o) ==
    LET revenue == SumAmounts(sales)
        count == Len(sales)
        average == IF count > 0 THEN TrueDiv(revenue, count) ELSE Zero
        report == [store_id |-> store, period |-> period,
                   metrics |-> Metrics(revenue, count, average)]
        st == store_report_in_sheets(o)
    IN  Outcome(st.exc, report, st.events)

(* _get_sales_data is the query of the period's transactions *)
GenerateSalesReport ==
    /\ Idle
    /\ \E period \in Periods : \E sales \in SalesData : \E o \in SheetOutcomes :
         LET r == generate_sales_report("STORE-001", period, sales, o)
         IN  /\ op' = "generate_sales_report"
             /\ arg' = [store_id |-> "STORE-001", period |-> period,
                        sales |-> sales, outcome |-> o]
             /\ ret' = [exc |-> r.exc, value |-> r.value]
             /\ pc' = Finish(r)
             /\ events' = r.events
    /\ UNCHANGED <<profiles, caller, audience, i, cur, results, sent, earlier>>

---------------------------------------------------------------------------
(* The driver takes the outcome of the call and is ready for the next one;
   nothing but the profile dicts outlives a call *)
Resume ==
    /\ pc \in {"returned", "raised"}
    /\ pc' = "idle"
    /\ op' = "none"
    /\ arg' = NoArg
    /\ ret' = Returned(NoValue)
    /\ events' = <<>>
    /\ caller' = "driver"
    /\ audience' = <<>>
    /\ i' = 1
    /\ cur' = NoCampaign
    /\ results' = <<>>
    /\ sent' = <<>>
    /\ earlier' = {}
    /\ UNCHANGED profiles

Init ==
    /\ pc = "idle"
    /\ op = "none"
    /\ arg = NoArg
    /\ ret = Returned(NoValue)
    /\ events = <<>>
    /\ profiles = [id \in CustIds |-> NoProfile]
    /\ caller = "driver"
    /\ audience = <<>>
    /\ i = 1
    /\ cur = NoCampaign
    /\ results = <<>>
    /\ sent = <<>>
    /\ earlier = {}

NextBridge == CallMcpTool \/ Resume

SpecBridge == Init /\ [][NextBridge]_vars

NextCapture == CaptureCustomer \/ Resume

SpecCapture == Init /\ [][NextCapture]_vars

NextLedger == CaptureSignup \/ TrackPurchase \/ Resume

SpecLedger == Init /\ [][NextLedger]_vars

NextWeMissYou == CallWeMissYou \/ WeMissYouStep \/ WeMissYouReturn \/ Resume

SpecWeMissYou == Init /\ [][NextWeMissYou]_vars

NextRecommendation == CallRecommendation \/ RecommendationStep \/ RecommendationReturn \/ Resume

SpecRecommendation == Init /\ [][NextRecommendation]_vars

NextSentiment == AnalyzeCustomerSentiment \/ Resume

SpecSentiment == Init /\ [][NextSentiment]_vars

NextReport == GenerateSalesReport \/ Resume

SpecReport == Init /\ [][NextReport]_vars

(* The callers of the bridge that read its result *)
NextCallers ==
    \/ AnalyzeCustomerSentiment
    \/ CallWeMissYou \/ WeMissYouStep \/ WeMissYouReturn
    \/ Resume

SpecCallers == Init /\ [][NextCallers]_vars

(* The three campaigns, each called on its own *)
NextCampaigns ==
    \/ CallWeMissYou \/ WeMissYouStep \/ WeMissYouReturn
    \/ CallBirthday \/ BirthdayStep \/ BirthdayReturn
    \/ CallRecommendation \/ RecommendationStep \/ RecommendationReturn
    \/ Resume

SpecCampaigns == Init /\ [][NextCampaigns]_vars

NextRun ==
    \/ RunMarketingCampaigns
    \/ WeMissYouStep \/ WeMissYouReturn
    \/ BirthdayStep \/ BirthdayReturn
    \/ RecommendationStep \/ RecommendationReturn
    \/ Resume

SpecRun == Init /\ [][NextRun]_vars

Next ==
    \/ CallMcpTool
    \/ CaptureCustomer \/ TrackPurchase
    \/ AnalyzeCustomerSentiment
    \/ GenerateSalesReport
    \/ CallWeMissYou \/ CallBirthday \/ CallRecommendation
    \/ RunMarketingCampaigns
    \/ WeMissYouStep \/ WeMissYouReturn
    \/ BirthdayStep \/ BirthdayReturn
    \/ RecommendationStep \/ RecommendationReturn
    \/ Resume

Spec == Init /\ [][Next]_vars

---------------------------------------------------------------------------
(* C2: every outcome of the external process makes _call_mcp_tool return a
   value, never raise; after a non-zero exit, a parse failure, a timeout or
   a failure to launch the value is a dict with an "error" key that carries
   the diagnostic (stderr, or the exception's message); the parsed output
   of a process that exited 0 is returned as it is. *)
BridgeNeverRaises ==
    op = "_call_mcp_tool" =>
        /\ pc = "returned"
        /\ ret.exc = NoExc
        /\ arg.outcome.kind = "nonzero" =>
             ErrorTagged(ret.value) /\ ret.value.error = arg.outcome.stderr
        /\ arg.outcome.kind = "exit0" /\ ~arg.outcome.parseable =>
             ErrorTagged(ret.value) /\ ret.value.error = ExcMessage("JSONDecodeError")
        /\ arg.outcome.kind = "timeout" =>
             ErrorTagged(ret.value) /\ ret.value.error = ExcMessage("TimeoutExpired")
        /\ arg.outcome.kind = "launch_failed" =>
             ErrorTagged(ret.value) /\ ret.value.error = ExcMessage("FileNotFoundError")
        /\ arg.outcome.kind = "exit0" /\ arg.outcome.parseable =>
             ret.value = arg.outcome.value

BridgeParseFailureSeen ==
    /\ op = "_call_mcp_tool"
    /\ arg.outcome.kind = "exit0"
    /\ ~arg.outcome.parseable
    /\ pc = "returned"
    /\ ErrorTagged(ret.value)

---------------------------------------------------------------------------
(* floor(a) of an amount a >= 0 or < 0 *)
Floor(a) == a \div AmountScale

(* C3: for every purchase with total_amount a >= 0, track_purchase returns
   the profile with loyalty_points increased by floor(a), total_spent by a
   and total_visits by 1, relative to the profile _get_customer loaded. *)
TrackPurchaseAwards ==
    op = "track_purchase" /\ arg.total_amount >= 0 =>
        /\ pc = "returned"
        /\ ret.value.loyalty_points = arg.loaded.loyalty_points + Floor(arg.total_amount)
        /\ ret.value.total_spent = arg.loaded.total_spent + arg.total_amount
        /\ ret.value.total_visits = arg.loaded.total_visits + 1

(* C4: a customer's loyalty_points is at least 100 right after
   capture_customer, and no later step decreases loyalty_points,
   total_visits or total_spent; the profile track_purchase returns is no
   lower than the one it loaded. *)
CountersStep ==
    /\ \A id \in CustIds :
         profiles[id] = NoProfile /\ profiles'[id] # NoProfile =>
             /\ op' = "capture_customer"
             /\ profiles'[id].loyalty_points >= 100
    /\ \A id \in CustIds :
         profiles[id] # NoProfile =>
             /\ profiles'[id] # NoProfile
             /\ profiles'[id].loyalty_points >= profiles[id].loyalty_points
             /\ profiles'[id].total_visits >= profiles[id].total_visits
             /\ profiles'[id].total_spent >= profiles[id].total_spent
    /\ op' = "track_purchase" /\ pc' = "returned" =>
             /\ ret'.value.loyalty_points >= arg'.loaded.loyalty_points
             /\ ret'.value.total_visits >= arg'.loaded.total_visits
             /\ ret'.value.total_spent >= arg'.loaded.total_spent

CountersNeverDecrease == [][CountersStep]_vars

TwoPurchasesTracked ==
    \E id \in CustIds :
        /\ profiles[id] # NoProfile
        /\ profiles[id].total_visits >= 2
        /\ profiles[id].loyalty_points > 100
        /\ op = "track_purchase"
        /\ pc = "returned"

(* C10: capture_customer returns the profile it built (a new id, no visits,
   nothing spent, 100 points, no last visit, active, each missing input
   field None) for every input mapping and every outcome of the persistence
   call; the persistence call is made once, before the welcome message, and
   the welcome message goes out whatever the call returned. *)
CaptureReturnsProfile ==
    op = "capture_customer" =>
        /\ pc = "returned"
        /\ ret.exc = NoExc
        /\ ret.value.keys = ProfileKeys
        /\ ret.value.id \in CustIds \ arg.known
        /\ ret.value.total_visits = 0
        /\ ret.value.total_spent = 0
        /\ ret.value.loyalty_points = 100
        /\ ret.value.last_visit = None
        /\ ret.value.status = "active"
        /\ \A f \in InputFields :
             ret.value[f] = IF f \in arg.data.keys THEN arg.data.fields[f] ELSE None
        /\ Len(events) = 2
        /\ events[1].kind = "mcp"
        /\ events[1].tool = "google_sheets_create_spreadsheet_row"
        /\ events[1].result = call_mcp_tool(arg.outcome)
        /\ events[2].kind = "send"
        /\ events[2].tool = "welcome"
        /\ events[2].to = ret.value.id

CaptureAfterFailedPersistence ==
    /\ op = "capture_customer"
    /\ arg.outcome.kind = "nonzero"
    /\ arg.data.keys = {"phone"}
    /\ pc = "returned"
    /\ ret.value.name = None
    /\ ErrorTagged(events[1].result.value)
    /\ events[2].kind = "send"

---------------------------------------------------------------------------
(* C1: whatever the list of N targeted customers, and whichever of them make
   the generation or the send throw, _run_we_miss_you_campaign lets no
   exception out, goes through the N customers in order counting each as
   sent or as an error, and returns target_count = N with
   messages_sent + errors = N. *)
ReengagementIsolatesFailures ==
    op = "_run_we_miss_you_campaign" =>
        /\ pc # "raised"
        /\ pc = "_run_we_miss_you_campaign" =>
             /\ i <= Len(audience) + 1
             /\ cur.target_count = Len(audience)
             /\ cur.sent + cur.errors = i - 1
        /\ pc = "returned" =>
             /\ ret.value.target_count = Len(audience)
             /\ ret.value.sent + ret.value.errors = Len(audience)

Alerts == SelectSeq(events, LAMBDA e : e.kind = "alert")
Sends == SelectSeq(events, LAMBDA e : e.kind = "send")

(* C5: analyze_customer_sentiment classifies by the score the bridge
   returned: below -0.5 it answers "manager_alerted_and_apology_generated"
   with one manager alert and the apology text; at -0.5 and above it takes
   no action and raises no alert, answering "positive" above 0 and
   "neutral" otherwise, 0 included. *)
SentimentClassification ==
    (/\ op = "analyze_customer_sentiment"
     /\ arg.outcome.kind = "exit0"
     /\ arg.outcome.parseable
     /\ arg.outcome.value.type = "object"
     /\ "score" \in arg.outcome.value.keys) =>
        LET score == arg.outcome.value.score
        IN  /\ pc = "returned"
            /\ ret.value.has_score
            /\ ret.value.score = score
            /\ 2 * score < -ScoreScale =>
                 /\ ret.value.action_taken = "manager_alerted_and_apology_generated"
                 /\ ret.value.sentiment = "negative"
                 /\ ret.value.apology_email = ApologyEmail
                 /\ Len(Alerts) = 1
            /\ 2 * score >= -ScoreScale =>
                 /\ ret.value.action_taken = "none"
                 /\ ret.value.apology_email = None
                 /\ Len(Alerts) = 0
                 /\ ret.value.sentiment = IF score > 0 THEN "positive" ELSE "neutral"

ScoreAtThresholdNotEscalated ==
    /\ op = "analyze_customer_sentiment"
    /\ pc = "returned"
    /\ arg.outcome.kind = "exit0"
    /\ arg.outcome.value.keys = {"score"}
    /\ 2 * arg.outcome.value.score = -ScoreScale
    /\ ret.value.sentiment = "neutral"
    /\ ret.value.action_taken = "none"

(* C6: generate_sales_report answers total_revenue = the sum of the
   amounts, total_transactions = the number of rows, and
   average_transaction = total_revenue / total_transactions, or 0 (with
   total_revenue 0, and no division fault) when there is no row; the amounts
   10, 20, 30 give 60, 3 and 20. *)
SalesReportMetrics ==
    op = "generate_sales_report" =>
        LET m == ret.value.metrics
            n == Len(arg.sales)
            total[k \in 0..n] == IF k = 0 THEN 0 ELSE total[k - 1] + arg.sales[k].amount
        IN  /\ pc = "returned"
            /\ m.total_transactions = n
            /\ m.total_revenue = total[n]
            /\ n = 0 => m.average_transaction.num = 0 /\ m.total_revenue = 0
            /\ n > 0 =>
                 /\ m.average_transaction.den > 0
                 /\ m.average_transaction.num * n = m.total_revenue * m.average_transaction.den
            /\ arg.sales = <<[amount |-> 10 * AmountScale], [amount |-> 20 * AmountScale],
                             [amount |-> 30 * AmountScale]>> =>
                 /\ m.total_revenue = 60 * AmountScale
                 /\ m.total_transactions = 3
                 /\ m.average_transaction = [num |-> 20 * AmountScale, den |-> 1]

SalesReportOfTenTwentyThirty ==
    /\ op = "generate_sales_report"
    /\ pc = "returned"
    /\ arg.sales = <<[amount |-> 10 * AmountScale], [amount |-> 20 * AmountScale],
                     [amount |-> 30 * AmountScale]>>
    /\ ret.value.metrics.total_revenue = 60 * AmountScale
    /\ ret.value.metrics.average_transaction = [num |-> 20 * AmountScale, den |-> 1]

CampaignOrder ==
    <<"_run_we_miss_you_campaign", "_run_birthday_campaign", "_run_recommendation_campaign">>

Stage(p) ==
    CASE p = "idle" -> 0
      [] p = "_run_we_miss_you_campaign" -> 1
      [] p = "_run_birthday_campaign" -> 2
      [] p = "_run_recommendation_campaign" -> 3
      [] OTHER -> 4

(* C7, as stated: for every audience the three queries return,
   run_marketing_campaigns returns three results, in the order
   re-engagement, birthday, recommendation. *)
RunAlwaysReturnsThreeResults ==
    op = "run_marketing_campaigns" =>
        /\ pc # "raised"
        /\ pc = "returned" =>
             /\ Len(ret.value) = 3
             /\ \A k \in 1..3 : ret.value[k].campaign = CampaignOrder[k]

(* The results of the campaigns behind the running one, in the fixed order *)
RunInOrder ==
    op = "run_marketing_campaigns" =>
        /\ \A k \in 1..Len(results) : results[k].campaign = CampaignOrder[k]
        /\ pc \in {"_run_we_miss_you_campaign", "_run_birthday_campaign",
                   "_run_recommendation_campaign"} =>
             /\ Len(results) = Stage(pc) - 1
             /\ cur.campaign = pc
             /\ cur.target_count = Len(audience)
        /\ pc = "returned" =>
             /\ ret.value = results
             /\ Len(results) = 3
        /\ pc = "raised" => Len(results) < 3

(* A step of the run: forward only, one customer after the other, and a
   named birthday customer is sent one message whoever was messaged before *)
RunStep ==
    op = "run_marketing_campaigns" /\ op' = "run_marketing_campaigns" =>
        /\ Stage(pc') >= Stage(pc)
        /\ Stage(pc') <= Stage(pc) + 1 \/ pc' = "raised"
        /\ pc' = pc =>
             /\ i' = i + 1
             /\ audience' = audience
             /\ results' = results
             /\ Len(sent') <= Len(sent) + 1
        /\ pc' # pc /\ pc' # "raised" =>
             /\ i = Len(audience) + 1
             /\ results' = Append(results, cur)
        /\ pc = "_run_birthday_campaign" /\ pc' = pc =>
             /\ sent' = Append(sent, audience[i].id)
             /\ cur'.sent = cur.sent + 1

(* C7, amended: whenever run_marketing_campaigns returns, it returns the
   three results in the order re-engagement, birthday, recommendation; the
   campaigns run once each, one after the other, every customer of an
   audience is gone through once, and a birthday customer is messaged
   whether or not an earlier campaign messaged them.  An exception that
   leaves a campaign leaves the run, which then returns nothing. *)
RunSequencing == [](RunInOrder) /\ [][RunStep]_vars

RunMessagedCustomerTwice ==
    /\ op = "run_marketing_campaigns"
    /\ pc = "returned"
    /\ Len(ret.value) = 3
    /\ ret.value[1].sent = 1
    /\ ret.value[2].sent = 1
    /\ SentIds \cap earlier # {}

(* C8: a caller that gets an error-tagged result from the bridge checks the
   marker before it uses the payload: the re-engagement loop sends no
   message made from the failed generation and counts none as sent, and
   analyze_customer_sentiment does not answer with a normal classification. *)
ErrorResultsAreChecked ==
    /\ (/\ op = "analyze_customer_sentiment"
        /\ pc = "returned"
        /\ ErrorTagged(events[1].result.value)) =>
           ret.value.sentiment \notin {"negative", "neutral", "positive"}
    /\ (/\ op = "_run_we_miss_you_campaign"
        /\ pc = "_run_we_miss_you_campaign"
        /\ events # <<>>
        /\ ErrorTagged(events[1].result.value)) =>
           Len(Sends) = 0

(* The value of the bridge in a pass of the recommendation loop holds no
   suggestion: not a dict, no text, or a text of blanks and line breaks *)
NoSuggestion(v) ==
    \/ v.type # "object"
    \/ "text" \notin v.keys
    \/ \A k \in 1..Len(v.text) : v.text[k] \in Whitespace

RecommendationPass ==
    /\ pc = "_run_recommendation_campaign"
    /\ i <= Len(audience)
    /\ events' # <<>>
    /\ events'[1].kind = "mcp"

SkippedPass ==
    /\ sent' = sent
    /\ cur'.sent = cur.sent
    /\ SelectSeq(events', LAMBDA e : e.kind = "send") = <<>>

MessagedPass ==
    /\ pc' = pc
    /\ sent' = Append(sent, audience[i].id)
    /\ cur'.sent = cur.sent + 1
    /\ Len(SelectSeq(events', LAMBDA e : e.kind = "send")) = 1

(* C9, as stated: a customer whose recommendation call holds no suggestion
   adds 0 to recommendations_sent and gets no message; every customer with
   at least one suggestion gets one message and adds 1. *)
RecommendationStepAsStated ==
    RecommendationPass =>
        IF NoSuggestion(events'[1].result.value) THEN SkippedPass ELSE MessagedPass

RecommendationAsStated == [][RecommendationStepAsStated]_vars

(* C9, amended: a customer whose recommendation call holds no suggestion
   (an empty text, blank lines only, an error result, a value that is no
   dict) adds 0 to recommendations_sent and gets no message; a customer
   whose dict has a name and whose call holds a suggestion gets one message
   and adds 1; a customer whose dict has no name and whose call holds a
   suggestion gets no message and adds nothing: the KeyError of the message
   text leaves the campaign. *)
RecommendationStepAmended ==
    RecommendationPass =>
        IF NoSuggestion(events'[1].result.value) THEN SkippedPass
        ELSE IF HasKey(audience[i], "name") THEN MessagedPass
        ELSE /\ pc' = "raised"
             /\ ret'.exc = "KeyError"
             /\ SkippedPass

RecommendationSkipsEmpty == [][RecommendationStepAmended]_vars

BlankLinesSkipped ==
    /\ op = "_run_recommendation_campaign"
    /\ pc = "_run_recommendation_campaign"
    /\ i = 2
    /\ events # <<>>
    /\ events[1].result.value.keys = {"text"}
    /\ events[1].result.value.text = <<" ", "\n", " ">>
    /\ sent = <<>>
    /\ cur.sent = 0

---------------------------------------------------------------------------
(* The ids of the customers of the audience, in list order *)
AudienceIds == [k \in 1..Len(audience) |-> audience[k].id]

NoIdTwice(ids) == \A j, k \in 1..Len(ids) : ids[j] = ids[k] => j = k

(* C11: in each of the three campaigns, at every point of the loop and in
   the result it returns, the success counter is the number of messages
   _send_message dispatched in the campaign; the messages went, in order, to
   customers the loop has gone through, at most one for each entry of the
   audience (so to no customer twice when the audience names none twice);
   and the success counter plus the error counter never exceeds
   target_count. *)
CounterMatchesDispatches ==
    op \in {CampaignOrder[k] : k \in 1..3} =>
        /\ cur.sent = Len(sent)
        /\ cur.target_count = Len(audience)
        /\ cur.sent + cur.errors <= cur.target_count
        /\ cur.sent + cur.errors <= i - 1
        /\ \E at \in [1..Len(sent) -> 1..(i - 1)] :
             /\ \A j, k \in 1..Len(sent) : j < k => at[j] < at[k]
             /\ \A k \in 1..Len(sent) : audience[at[k]].id = sent[k]
        /\ NoIdTwice(AudienceIds) => NoIdTwice(sent)
        /\ pc = "returned" =>
             /\ ret.value = cur
             /\ ret.value.sent = Len(sent)

CampaignReturnedWithOneSkipped ==
    /\ op = "_run_recommendation_campaign"
    /\ pc = "returned"
    /\ ret.value.target_count = 2
    /\ ret.value.sent = 1
    /\ Len(sent) = 1
    /\ sent[1] = audience[2].id
    /\ audience[1].id # audience[2].id

====
